---------------------------- MODULE Spec2Model ----------------------------
(***************************************************************************)
(* A model of the fermi estimation harness: parse_estimate and             *)
(* convert_units (src/src/utils.py), calculate_score and                   *)
(* generate_eval_result (src/src/eval/eval.py).                            *)
(*                                                                         *)
(* Python strings are TLA+ strings; str methods (strip, lower, startswith, *)
(* slicing) are computed character by character.  Python floats are        *)
(* modelled by exact rationals [n, d] with d > 0 (no rounding, no NaN).    *)
(* Python values are tagged records so that isinstance tests can be made.  *)
(***************************************************************************)
EXTENDS Integers, Sequences, FiniteSets, TLC

VARIABLES
    pc,          \* position of the caller: "start", "returned" or "raised"
    estimated,   \* calculate_score's first argument (an Estimate or a str)
    correct,     \* calculate_score's second argument (the reference Estimate)
    response,    \* the texts completion_text returned to convert_units, in order
    outcome,     \* what the called function returned or raised
    requests,    \* the convert_units requests made so far, in order
    text,        \* parse_estimate's argument
    rows,        \* the rows of data/eval.csv
    estimator,   \* generate_eval_result's argument: its name, and the ways
                 \* estimator.fn can end
    parallel,    \* generate_eval_result's argument
    questions,   \* load_eval's first result
    estimates,   \* load_eval's second result
    futures,     \* the executor's futures, one per submitted question
    results,     \* the list results, as far as it has been built
    world,       \* per question: what the estimator and the conversion answered
    overtaken    \* a question finished while an earlier one was still running

scoreVars == <<estimated, correct, response, requests>>
batchVars == <<rows, estimator, parallel, questions, estimates, futures, results, world, overtaken>>
vars == <<pc, outcome, text, scoreVars, batchVars>>

(***************************************************************************)
(* Bounds of the model.                                                    *)
(***************************************************************************)
MaxValue == 4
MaxBound == 4
MaxRows == 3

(***************************************************************************)
(* Python values.                                                          *)
(***************************************************************************)
None == [t |-> "NoneType", s |-> "", n |-> 0, d |-> 1]
Str(s) == [t |-> "str", s |-> s, n |-> 0, d |-> 1]
Num(n, d) == [t |-> "num", s |-> "", n |-> n, d |-> d]
PyInt(n) == Num(n, 1)
PyBool(b) == [t |-> "bool", s |-> "", n |-> IF b THEN 1 ELSE 0, d |-> 1]
PyList == [t |-> "list", s |-> "", n |-> 0, d |-> 1]
PyDict == [t |-> "dict", s |-> "", n |-> 0, d |-> 1]
IsStr(x) == x.t = "str"
\* isinstance(x, (int, float)); bool is a subclass of int
IsNum(x) == x.t \in {"num", "bool"}

\* structs.py: the Estimate dataclass (name and reasoning_trace stay None here)
Estimate(lower, value, upper, unit) ==
    [t |-> "Estimate", lower |-> lower, value |-> value, upper |-> upper,
     unit |-> unit]

\* what a function call ends with
Return(v) == [kind |-> "return", value |-> v, exc |-> "", msg |-> ""]
Raise(exc, msg) == [kind |-> "raise", value |-> None, exc |-> exc, msg |-> msg]

(***************************************************************************)
(* str methods.                                                            *)
(***************************************************************************)
Char(s, i) == SubSeq(s, i, i)

Whitespace == {" ", "\t", "\n", "\r"}

LowerChar(c) ==
    CASE c = "A" -> "a" [] c = "B" -> "b" [] c = "C" -> "c" [] c = "D" -> "d"
      [] c = "E" -> "e" [] c = "F" -> "f" [] c = "G" -> "g" [] c = "H" -> "h"
      [] c = "I" -> "i" [] c = "J" -> "j" [] c = "K" -> "k" [] c = "L" -> "l"
      [] c = "M" -> "m" [] c = "N" -> "n" [] c = "O" -> "o" [] c = "P" -> "p"
      [] c = "Q" -> "q" [] c = "R" -> "r" [] c = "S" -> "s" [] c = "T" -> "t"
      [] c = "U" -> "u" [] c = "V" -> "v" [] c = "W" -> "w" [] c = "X" -> "x"
      [] c = "Y" -> "y" [] c = "Z" -> "z" [] OTHER -> c

RECURSIVE StrLower(_)
StrLower(s) ==
    IF s = "" THEN "" ELSE LowerChar(Char(s, 1)) \o StrLower(Tail(s))

RECURSIVE LStrip(_, _)
LStrip(s, chars) ==
    IF s # "" /\ Char(s, 1) \in chars THEN LStrip(Tail(s), chars) ELSE s

RECURSIVE RStrip(_, _)
RStrip(s, chars) ==
    IF s # "" /\ Char(s, Len(s)) \in chars
    THEN RStrip(SubSeq(s, 1, Len(s) - 1), chars)
    ELSE s

StrStrip(s) == RStrip(LStrip(s, Whitespace), Whitespace)

StartsWith(s, prefix) ==
    Len(s) >= Len(prefix) /\ SubSeq(s, 1, Len(prefix)) = prefix

EndsWith(s, suffix) ==
    Len(s) >= Len(suffix) /\ SubSeq(s, Len(s) - Len(suffix) + 1, Len(s)) = suffix

\* s[k:]
SliceFrom(s, k) == IF k >= Len(s) THEN "" ELSE SubSeq(s, k + 1, Len(s))

(***************************************************************************)
(* eval(response), utils.py line 85, for the expressions listed in         *)
(* Responses: a string literal, an identifier, or integer literals joined  *)
(* by * and /.  eval drops leading blanks and tabs and any trailing        *)
(* whitespace.  An expression outside this grammar is reported as a        *)
(* SyntaxError, which is what CPython 3.11 does for each member of         *)
(* Responses that is not one of the three forms.                           *)
(***************************************************************************)
Digits == {"0", "1", "2", "3", "4", "5", "6", "7", "8", "9"}
Letters ==
    {"a", "b", "c", "d", "e", "f", "g", "h", "i", "j", "k", "l", "m", "n", "o",
     "p", "q", "r", "s", "t", "u", "v", "w", "x", "y", "z", "A", "B", "C", "D",
     "E", "F", "G", "H", "I", "J", "K", "L", "M", "N", "O", "P", "Q", "R", "S",
     "T", "U", "V", "W", "X", "Y", "Z", "_"}
Quotes == {"\"", "'"}

DigitVal(c) ==
    CASE c = "0" -> 0 [] c = "1" -> 1 [] c = "2" -> 2 [] c = "3" -> 3
      [] c = "4" -> 4 [] c = "5" -> 5 [] c = "6" -> 6 [] c = "7" -> 7
      [] c = "8" -> 8 [] c = "9" -> 9

AllIn(s, chars) == \A i \in 1..Len(s) : Char(s, i) \in chars

\* the longest prefix of s made of digits, as [val, rest, ok]
RECURSIVE ScanInt(_, _, _)
ScanInt(s, acc, seen) ==
    IF s # "" /\ Char(s, 1) \in Digits
    THEN ScanInt(Tail(s), 10 * acc + DigitVal(Char(s, 1)), TRUE)
    ELSE [val |-> acc, rest |-> s, ok |-> seen]

SyntaxErrorAt(line) ==
    Raise("SyntaxError", "invalid syntax (<string>, line " \o line \o ")")

\* acc (a number) followed by s: ( ("*" | "/") INT )*
RECURSIVE EvalTail(_, _)
EvalTail(acc, s) ==
    LET t == LStrip(s, {" ", "\t"}) IN
    IF t = "" THEN Return(acc)
    ELSE IF Char(t, 1) \notin {"*", "/"} THEN SyntaxErrorAt("1")
    ELSE LET i == ScanInt(LStrip(Tail(t), {" ", "\t"}), 0, FALSE) IN
         IF ~i.ok THEN SyntaxErrorAt("1")
         ELSE IF Char(t, 1) = "*" THEN EvalTail(Num(acc.n * i.val, acc.d), i.rest)
         ELSE IF i.val = 0 THEN Raise("ZeroDivisionError", "division by zero")
         ELSE EvalTail(Num(acc.n, acc.d * i.val), i.rest)

PyEval(source) ==
    LET t == RStrip(LStrip(source, {" ", "\t"}), Whitespace) IN
    IF t = "" THEN SyntaxErrorAt("0")
    ELSE IF Char(t, 1) \in Quotes THEN
        LET q == Char(t, 1)
            body == SubSeq(t, 2, Len(t) - 1) IN
        IF \A i \in 2..Len(t) : Char(t, i) # q
        THEN Raise("SyntaxError",
                   "unterminated string literal (detected at line 1) (<string>, line 1)")
        ELSE IF Char(t, Len(t)) = q /\ \A i \in 1..Len(body) : Char(body, i) # q
        THEN Return(Str(body))
        ELSE SyntaxErrorAt("1")
    ELSE IF Char(t, 1) \in Digits THEN
        LET i == ScanInt(t, 0, FALSE) IN EvalTail(PyInt(i.val), i.rest)
    ELSE IF AllIn(t, Letters \cup Digits) THEN
        CASE t = "None" -> Return(None)
          [] t = "True" -> Return(PyBool(TRUE))
          [] t = "False" -> Return(PyBool(FALSE))
          [] OTHER -> Raise("NameError", "name '" \o t \o "' is not defined")
    ELSE SyntaxErrorAt("1")

(***************************************************************************)
(* utils.py: convert_units.  reply is the text completion_text returned    *)
(* for the prompt built from unit1 and unit2.                              *)
(***************************************************************************)
\* a variant that hands the word "same" on to the caller instead of the factor 1
convert_units_SameWord(unit1, unit2, reply) ==
    IF reply = "same" THEN Str("same")
    ELSE IF reply = "invalid" THEN Str("invalid")
    ELSE LET r == PyEval(reply) IN
         IF r.kind = "return" THEN r.value ELSE Str("invalid: " \o r.msg)

convert_units(unit1, unit2, reply) ==
    IF reply = "same" THEN PyInt(1)
    ELSE IF reply = "invalid" THEN Str("invalid")
    ELSE LET r == PyEval(reply) IN
         IF r.kind = "return" THEN r.value ELSE Str("invalid: " \o r.msg)

(***************************************************************************)
(* eval.py: calculate_score.  The result is [out, calls]: what the call    *)
(* returns or raises, and the convert_units calls it made, in order.       *)
(***************************************************************************)
\* a variant whose range check admits the bounds themselves
ScoreWithFactor_Inclusive(est, cor, conversion_factor) ==
    IF IsStr(conversion_factor) THEN
        IF StrStrip(StrLower(conversion_factor.s)) = "same"
        THEN Return(<<1, "">>)
        ELSE IF StartsWith(StrStrip(StrLower(conversion_factor.s)), "invalid")
        THEN Return(<<0, "Invalid units: " \o est.unit \o " and "
                         \o cor.unit \o ". Conversion model returned: "
                         \o SliceFrom(conversion_factor.s, 7)>>)
        ELSE Raise("ValueError", "Unexpected response from conversion model: "
                                 \o conversion_factor.s)
    ELSE IF ~IsNum(conversion_factor)
    THEN Raise("TypeError", "unsupported operand type(s) for *: 'float' and '"
                            \o conversion_factor.t \o "'")
    ELSE LET n == est.value * conversion_factor.n
             d == conversion_factor.d IN
         IF cor.lower * d <= n /\ n <= cor.upper * d
         THEN Return(<<1, "">>)
         ELSE Return(<<0, "">>)

\* a variant that reports every str it does not know as invalid units
ScoreWithFactor_NoRaise(est, cor, conversion_factor) ==
    IF IsStr(conversion_factor) THEN
        IF StrStrip(StrLower(conversion_factor.s)) = "same"
        THEN Return(<<1, "">>)
        ELSE Return(<<0, "Invalid units: " \o est.unit \o " and "
                         \o cor.unit \o ". Conversion model returned: "
                         \o SliceFrom(conversion_factor.s, 7)>>)
    ELSE IF ~IsNum(conversion_factor)
    THEN Raise("TypeError", "unsupported operand type(s) for *: 'float' and '"
                            \o conversion_factor.t \o "'")
    ELSE LET n == est.value * conversion_factor.n
             d == conversion_factor.d IN
         IF cor.lower * d < n /\ n < cor.upper * d
         THEN Return(<<1, "">>)
         ELSE Return(<<0, "">>)

ScoreWithFactor(est, cor, conversion_factor) ==
    IF IsStr(conversion_factor) THEN
        IF StrStrip(StrLower(conversion_factor.s)) = "same"
        THEN Return(<<1, "">>)
        ELSE IF StartsWith(StrStrip(StrLower(conversion_factor.s)), "invalid")
        THEN Return(<<0, "Invalid units: " \o est.unit \o " and "
                         \o cor.unit \o ". Conversion model returned: "
                         \o SliceFrom(conversion_factor.s, 7)>>)
        ELSE Raise("ValueError", "Unexpected response from conversion model: "
                                 \o conversion_factor.s)
    ELSE IF ~IsNum(conversion_factor)
    THEN Raise("TypeError", "unsupported operand type(s) for *: 'float' and '"
                            \o conversion_factor.t \o "'")
    ELSE \* estimated_value = est.value * conversion_factor, as n / d
         LET n == est.value * conversion_factor.n
             d == conversion_factor.d IN
         IF cor.lower * d < n /\ n < cor.upper * d
         THEN Return(<<1, "">>)
         ELSE Return(<<0, "">>)

\* a variant that asks for the conversion before looking at the candidate
calculate_score_ConvertFirst(est, cor, reply) ==
    IF IsStr(est)
    THEN [out |-> Return(<<0, est.s>>), calls |-> << <<"", cor.unit>> >>]
    ELSE [out |-> ScoreWithFactor(est, cor, convert_units(est.unit, cor.unit, reply)),
          calls |-> << <<est.unit, cor.unit>> >>]

calculate_score(est, cor, reply) ==
    IF IsStr(est)
    THEN [out |-> Return(<<0, est.s>>), calls |-> <<>>]
    ELSE [out |-> ScoreWithFactor(est, cor, convert_units(est.unit, cor.unit, reply)),
          calls |-> << <<est.unit, cor.unit>> >>]

(***************************************************************************)
(* Inputs.                                                                 *)
(***************************************************************************)
Units == {"kg", "m"}

\* replies of the completion service to the unit-conversion prompt
Responses ==
    {"same", "Same", "SAME", " same\n", "same\n",
     "invalid", "Invalid", "invalid\n", "invalid units", "INVALID: no",
     "0", "1", "2", " 2", "2\n", "3 * 2", "1 / 2", "4 / 2", "1 / 0", "1 +",
     "\"same\"", "\"Same \"", "\"invalid: x\"", "\"Invalid\"", "\"hello\"",
     "'x'", "\"a", "hello", "None", "True", ""}

\* a candidate is an Estimate or the str that stands for a failed estimate
Candidates ==
    {Str(s) : s \in {"", "Traceback"}}
    \cup {Estimate(0, v, MaxValue, u) : v \in 0..MaxValue, u \in Units}

References ==
    {Estimate(lo, lo, up, u) : lo \in 0..MaxBound, up \in 0..MaxBound, u \in {"kg"}}

NoOutcome == [kind |-> "none", value |-> None, exc |-> "", msg |-> ""]

\* generate_eval_result is not running
NoBatch ==
    /\ rows = <<>>
    /\ estimator = [name |-> "", fn |-> {}]
    /\ parallel = FALSE
    /\ questions = <<>>
    /\ estimates = <<>>
    /\ futures = <<>>
    /\ results = <<>>
    /\ world = <<>>
    /\ overtaken = FALSE

(***************************************************************************)
(* SpecScore: one call of calculate_score.                                 *)
(***************************************************************************)
InitScore ==
    /\ pc = "start"
    /\ estimated \in Candidates
    /\ correct \in References
    /\ response = <<>>
    /\ outcome = NoOutcome
    /\ requests = <<>>
    /\ text = ""
    /\ NoBatch

CalculateScore ==
    /\ pc = "start"
    /\ \E reply \in Responses :
        LET r == calculate_score(estimated, correct, reply) IN
        /\ outcome' = r.out
        /\ requests' = requests \o r.calls
        /\ response' = IF r.calls = <<>> THEN <<>> ELSE <<reply>>
        /\ pc' = IF r.out.kind = "raise" THEN "raised" ELSE "returned"
    /\ UNCHANGED <<estimated, correct, text, batchVars>>

NextScore == CalculateScore

SpecScore == InitScore /\ [][NextScore]_vars

(***************************************************************************)
(* utils.py: parse_estimate.                                               *)
(***************************************************************************)
\* text.find(c): the first index of c, counted from 0, or -1
RECURSIVE FindFrom(_, _, _)
FindFrom(s, c, i) ==
    IF i > Len(s) THEN -1
    ELSE IF Char(s, i) = c THEN i - 1
    ELSE FindFrom(s, c, i + 1)

Find(s, c) == FindFrom(s, c, 1)

\* text.rfind(c): the last index of c, counted from 0, or -1
RECURSIVE RFindFrom(_, _, _)
RFindFrom(s, c, i) ==
    IF i < 1 THEN -1
    ELSE IF Char(s, i) = c THEN i - 1
    ELSE RFindFrom(s, c, i - 1)

RFind(s, c) == RFindFrom(s, c, Len(s))

\* s[a:b]; a negative index counts from the end
Slice(s, a, b) ==
    LET clamp(i) == IF i < 0 THEN (IF i + Len(s) < 0 THEN 0 ELSE i + Len(s))
                    ELSE IF i > Len(s) THEN Len(s) ELSE i
    IN SubSeq(s, clamp(a) + 1, clamp(b))

(***************************************************************************)
(* json.loads, utils.py line 41, for documents made of objects, arrays,    *)
(* strings without escapes, unsigned integers, true, false and null.       *)
(* A parse step yields [ok, val, rest].  An object is a function from its  *)
(* keys to Python values (a repeated key keeps its last value); an array   *)
(* or an object met as a value is kept only as its type.                   *)
(***************************************************************************)
JsonFail == [ok |-> FALSE, val |-> None, rest |-> ""]
JsonOk(v, rest) == [ok |-> TRUE, val |-> v, rest |-> rest]
SkipWS(s) == LStrip(s, Whitespace)
EmptyDict == [k \in {} |-> None]
DictSet(dict, k, v) ==
    [x \in DOMAIN dict \cup {k} |-> IF x = k THEN v ELSE dict[x]]

\* s starts with a double quote: the characters up to the next one
JsonString(s) ==
    LET close == Find(Tail(s), "\"") IN
    IF close < 0 \/ Find(Slice(Tail(s), 0, close), "\\") >= 0 THEN JsonFail
    ELSE JsonOk(Slice(Tail(s), 0, close), SliceFrom(Tail(s), close + 1))

RECURSIVE JsonValue(_), JsonMembers(_, _), JsonElements(_)

\* s follows "{" or a "," of an object whose members so far are dict
JsonMembers(dict, s) ==
    LET t == SkipWS(s) IN
    IF t = "" \/ Char(t, 1) # "\"" THEN JsonFail
    ELSE LET k == JsonString(t)
             colon == SkipWS(k.rest) IN
         IF ~k.ok \/ colon = "" \/ Char(colon, 1) # ":" THEN JsonFail
         ELSE LET v == JsonValue(Tail(colon))
                  after == SkipWS(v.rest) IN
              IF ~v.ok \/ after = "" THEN JsonFail
              ELSE IF Char(after, 1) = "}"
              THEN JsonOk(DictSet(dict, k.val, v.val), Tail(after))
              ELSE IF Char(after, 1) = ","
              THEN JsonMembers(DictSet(dict, k.val, v.val), Tail(after))
              ELSE JsonFail

\* s starts with "{"
JsonObject(s) ==
    LET t == SkipWS(Tail(s)) IN
    IF t # "" /\ Char(t, 1) = "}" THEN JsonOk(EmptyDict, Tail(t))
    ELSE JsonMembers(EmptyDict, t)

\* s follows "[" or a "," of an array
JsonElements(s) ==
    LET v == JsonValue(s)
        after == SkipWS(v.rest) IN
    IF ~v.ok \/ after = "" THEN JsonFail
    ELSE IF Char(after, 1) = "]" THEN JsonOk(PyList, Tail(after))
    ELSE IF Char(after, 1) = "," THEN JsonElements(Tail(after))
    ELSE JsonFail

JsonValue(s) ==
    LET t == SkipWS(s) IN
    IF t = "" THEN JsonFail
    ELSE IF Char(t, 1) = "\"" THEN
        LET r == JsonString(t) IN
        IF r.ok THEN JsonOk(Str(r.val), r.rest) ELSE JsonFail
    ELSE IF Char(t, 1) \in Digits THEN
        LET i == ScanInt(t, 0, FALSE) IN JsonOk(PyInt(i.val), i.rest)
    ELSE IF StartsWith(t, "null") THEN JsonOk(None, SliceFrom(t, 4))
    ELSE IF StartsWith(t, "true") THEN JsonOk(PyBool(TRUE), SliceFrom(t, 4))
    ELSE IF StartsWith(t, "false") THEN JsonOk(PyBool(FALSE), SliceFrom(t, 5))
    ELSE IF Char(t, 1) = "[" THEN
        LET u == SkipWS(Tail(t)) IN
        IF u # "" /\ Char(u, 1) = "]" THEN JsonOk(PyList, Tail(u))
        ELSE JsonElements(Tail(t))
    ELSE IF Char(t, 1) = "{" THEN
        LET r == JsonObject(t) IN
        IF r.ok THEN JsonOk(PyDict, r.rest) ELSE JsonFail
    ELSE JsonFail

\* json.loads of a text that starts with "{"
JsonLoads(s) ==
    LET r == JsonObject(s) IN
    IF r.ok /\ SkipWS(r.rest) = "" THEN Return(r.val)
    ELSE Raise("JSONDecodeError", "")

(***************************************************************************)
(* float(x), utils.py line 54: a str of digits with an optional exponent,  *)
(* surrounded by whitespace, is converted; any other str is a ValueError;  *)
(* a value that is neither a str nor a number is a TypeError.              *)
(***************************************************************************)
RECURSIVE Pow10(_)
Pow10(k) == IF k = 0 THEN 1 ELSE 10 * Pow10(k - 1)

PyFloat(x) ==
    IF IsNum(x) THEN Return(Num(x.n, x.d))
    ELSE IF ~IsStr(x)
    THEN Raise("TypeError", "float() argument must be a string or a real number, not '"
                            \o x.t \o "'")
    ELSE LET t == StrStrip(x.s)
             m == ScanInt(t, 0, FALSE)
             e == ScanInt(SliceFrom(m.rest, 1), 0, FALSE)
             bad == Raise("ValueError", "could not convert string to float: '"
                                        \o x.s \o "'") IN
         IF ~m.ok THEN bad
         ELSE IF m.rest = "" THEN Return(PyInt(m.val))
         ELSE IF Char(m.rest, 1) \in {"e", "E"} /\ e.ok /\ e.rest = ""
         THEN Return(PyInt(m.val * Pow10(e.val)))
         ELSE bad

RECURSIVE Join(_, _)
Join(sep, seq) ==
    IF seq = <<>> THEN ""
    ELSE IF Len(seq) = 1 THEN seq[1]
    ELSE seq[1] \o sep \o Join(sep, Tail(seq))

\* the members of order that are in S, in that order
RECURSIVE Filter(_, _)
Filter(order, S) ==
    IF order = <<>> THEN <<>>
    ELSE IF order[1] \in S THEN <<order[1]>> \o Filter(Tail(order), S)
    ELSE Filter(Tail(order), S)

ExpectedKeys == {"lower", "value", "upper", "unit"}
\* the keyword arguments of Estimate (structs.py)
EstimateFields == ExpectedKeys \cup {"name", "reasoning_trace"}

\* a str or a number as the TLA+ value that stands for it in an Estimate
Native(x) == IF IsStr(x) THEN x.s ELSE IF IsNum(x) THEN x.n ELSE x

\* lines 51-56: the loop over numerical_fields, taken in the order fields
RECURSIVE CoerceFields(_, _)
CoerceFields(data, fields) ==
    IF fields = <<>> THEN Return(data)
    ELSE IF IsNum(data[fields[1]]) THEN CoerceFields(data, Tail(fields))
    ELSE LET r == PyFloat(data[fields[1]]) IN
         IF r.kind = "return"
         THEN CoerceFields(DictSet(data, fields[1], r.value), Tail(fields))
         ELSE IF r.exc = "ValueError"
         THEN Raise("ValueError", "Field '" \o fields[1] \o "' is not a valid number")
         ELSE r

\* line 58: Estimate(**data)
MakeEstimate(data) ==
    IF DOMAIN data \subseteq EstimateFields
    THEN Return(Estimate(Native(data["lower"]), Native(data["value"]),
                         Native(data["upper"]), Native(data["unit"])))
    ELSE Raise("TypeError", "Estimate.__init__() got an unexpected keyword argument '"
                            \o (CHOOSE k \in DOMAIN data : k \notin EstimateFields)
                            \o "'")

\* a variant that reports the expected keys the document lacks
MissingFields_Lacking(data, keyOrder) ==
    Raise("ValueError", "Text is missing the fields: "
                        \o Join(", ", Filter(keyOrder, ExpectedKeys \ DOMAIN data)))

\* line 47; keyOrder is the order in which the set of keys is iterated
MissingFields(data, keyOrder) ==
    Raise("ValueError", "Text is missing the fields: "
                        \o Join(", ", Filter(keyOrder, DOMAIN data \ ExpectedKeys)))

\* fields is the iteration order of the set numerical_fields
parse_estimate(txt, fields, keyOrder) ==
    LET json_start == Find(txt, "{")
        json_end == RFind(txt, "}") + 1
        json_text == Slice(txt, json_start, json_end) IN
    IF ~StartsWith(json_text, "{") \/ ~EndsWith(json_text, "}")
    THEN Raise("ValueError", "Text is not a valid JSON object")
    ELSE LET loaded == JsonLoads(json_text)
             data == loaded.value IN
         IF loaded.kind = "raise"
         THEN Raise("ValueError", "Text is not a valid JSON object")
         ELSE IF ~(ExpectedKeys \subseteq DOMAIN data)
         THEN MissingFields(data, keyOrder)
         ELSE LET coerced == CoerceFields(data, fields) IN
              IF coerced.kind = "raise" THEN coerced
              ELSE MakeEstimate(coerced.value)

(***************************************************************************)
(* SpecParse: one call of parse_estimate on a model reply.                 *)
(***************************************************************************)
numerical_fields == {"lower", "value", "upper"}

\* the orders in which the set numerical_fields can be iterated
FieldOrders ==
    {<<a, b, c>> : a \in numerical_fields, b \in numerical_fields,
                   c \in numerical_fields} \ 
    {o \in [1..3 -> numerical_fields] : o[1] = o[2] \/ o[1] = o[3] \/ o[2] = o[3]}

\* two opposite iteration orders of the keys a document may add: they
\* induce every order of a set of at most two such keys
KeyOrders ==
    {<<"confidence", "note", "x", "a">>, <<"a", "x", "note", "confidence">>}

\* the JSON text of one field, or "" when the reply leaves the field out
NumberTexts == {"", "1", "\"3e2\"", "\"abc\"", "null", "[1]", "{\"a\": 1}", "true"}
UnitTexts == {"", "\"kg\"", "5"}
ConfidenceTexts == {"", "1"}
NoteTexts == {"", "\"n\""}

Member(key, valueText) ==
    IF valueText = "" THEN <<>> ELSE <<"\"" \o key \o "\": " \o valueText>>

ObjectText(lo, va, up, un, co, no) ==
    "{" \o Join(", ", Member("lower", lo) \o Member("confidence", co)
                      \o Member("value", va) \o Member("upper", up)
                      \o Member("unit", un) \o Member("note", no)) \o "}"

Wrappers == {<<"", "">>, <<"Sure, here it is:\n", "\nHope that helps!">>}

Texts ==
    {w[1] \o ObjectText(lo, va, up, un, co, no) \o w[2] :
        lo \in NumberTexts, va \in NumberTexts, up \in NumberTexts,
        un \in UnitTexts, co \in ConfidenceTexts, no \in NoteTexts,
        w \in Wrappers}
    \cup {"", "no json here", "}{", "{", "}", "x} and {y",
          "{\"lower\": 1} {\"value\": 2}", "{\"lower\": }", "{lower: 1}",
          "a {\"x\": {\"lower\": 1}} b",
          "{\"lower\": 1, \"value\": \" 12 \", \"upper\": 3, \"unit\": \"kg\", \"unit\": \"m\"}",
          "{\"lower\": 1, \"value\": 2, \"upper\": 3, \"unit\": \"kg\", \"name\": \"n\"}"}

InitParse ==
    /\ pc = "start"
    /\ text \in Texts
    /\ estimated = Str("")
    /\ correct = Estimate(0, 0, 0, "")
    /\ response = <<>>
    /\ outcome = NoOutcome
    /\ requests = <<>>
    /\ NoBatch

ParseEstimate ==
    /\ pc = "start"
    /\ \E fields \in FieldOrders, keyOrder \in KeyOrders :
        /\ outcome' = parse_estimate(text, fields, keyOrder)
        /\ pc' = IF outcome'.kind = "raise" THEN "raised" ELSE "returned"
    /\ UNCHANGED <<scoreVars, text, batchVars>>

NextParse == ParseEstimate

SpecParse == InitParse /\ [][NextParse]_vars

(***************************************************************************)
(* eval.py: load_eval.  A row of data/eval.csv is a record of strs; a row  *)
(* whose lower or upper is empty is skipped.  The rows used here have      *)
(* bounds whose product is a square, so that math.sqrt is exact.           *)
(***************************************************************************)
Sqrt(n) == CHOOSE r \in 0..n : r * r = n

RECURSIVE load_eval(_)
load_eval(csv) ==
    IF csv = <<>> THEN [questions |-> <<>>, estimates |-> <<>>]
    ELSE LET row == csv[Len(csv)]
             rest == load_eval(SubSeq(csv, 1, Len(csv) - 1)) IN
         IF row.lower # "" /\ row.upper # ""
         THEN LET lower == PyFloat(Str(row.lower)).value.n
                  upper == PyFloat(Str(row.upper)).value.n IN
              [questions |-> Append(rest.questions, row.question),
               estimates |-> Append(rest.estimates,
                                    Estimate(lower, Sqrt(lower * upper), upper, row.unit))]
         ELSE rest

(***************************************************************************)
(* baselines.py: run_simple_llm_estimator ends with parse_estimate of the  *)
(* model's second reply; EstimatorOutcomes are the ways estimator.fn can   *)
(* end for the replies EstimatorTexts.                                     *)
(***************************************************************************)
EstimatorName == "simple_llm_estimator"

EstimatorTexts ==
    {"{\"lower\": 1, \"value\": 2, \"upper\": 3, \"unit\": \"kg\"}",
     "{\"lower\": null, \"value\": 2, \"upper\": 3, \"unit\": \"kg\"}",
     "no json here"}

EstimatorOutcomes ==
    {parse_estimate(t, f, k) : t \in EstimatorTexts, f \in FieldOrders, k \in KeyOrders}

\* replies of the completion service to convert_units during a run
BatchResponses == {"same", "2", "\"hello\""}

\* traceback.format_exception and traceback.format_exc, without the frames
TracebackText(e) ==
    "Traceback (most recent call last):\n" \o e.exc \o ": " \o e.msg \o "\n"

QueryEvalResult(question, estimate, estimator_name, correct_estimate, log) ==
    [question |-> question, estimate |-> estimate, estimator_name |-> estimator_name,
     correct_estimate |-> correct_estimate, log |-> log]

EvalResult(estimator_name, score, queries_incorrect, queries_correct) ==
    [estimator_name |-> estimator_name, score |-> score,
     queries_incorrect |-> queries_incorrect, queries_correct |-> queries_correct]

\* a variant without the try block around estimator.fn
process_estimate_NoCatch(question, correct_estimate, name, fn, reply) ==
    IF fn.kind = "raise" THEN [out |-> fn, calls |-> <<>>]
    ELSE LET scored == calculate_score(fn.value, correct_estimate, reply)
             log == IF scored.out.kind = "return" /\ scored.out.value[2] # ""
                    THEN <<scored.out.value[2]>> ELSE <<>> IN
         [out |-> IF scored.out.kind = "raise" THEN scored.out
                  ELSE Return(<<QueryEvalResult(question, fn.value, name,
                                                correct_estimate, log),
                                scored.out.value[1]>>),
          calls |-> scored.calls]

\* lines 61-75.  fn is how estimator.fn(question) ends, reply the text the
\* completion service gives convert_units.  The result is [out, calls].
process_estimate(question, correct_estimate, name, fn, reply) ==
    LET estimated_estimate ==
            IF fn.kind = "raise" THEN Str(TracebackText(fn)) ELSE fn.value
        log1 == IF fn.kind = "raise" THEN <<TracebackText(fn)>> ELSE <<>>
        scored == calculate_score(estimated_estimate, correct_estimate, reply)
        log2 == IF scored.out.kind = "return" /\ scored.out.value[2] # ""
                THEN Append(log1, scored.out.value[2]) ELSE log1 IN
    [out |-> IF scored.out.kind = "raise" THEN scored.out
             ELSE Return(<<QueryEvalResult(question, estimated_estimate, name,
                                           correct_estimate, log2),
                           scored.out.value[1]>>),
     calls |-> scored.calls]

RECURSIVE Sum(_)
Sum(seq) == IF seq = <<>> THEN 0 ELSE seq[1] + Sum(Tail(seq))

\* [query for query, score in zip(queries, scores) if score == wanted]
RECURSIVE QueriesWithScore(_, _)
QueriesWithScore(res, wanted) ==
    IF res = <<>> THEN <<>>
    ELSE IF res[1][2] = wanted
    THEN <<res[1][1]>> \o QueriesWithScore(Tail(res), wanted)
    ELSE QueriesWithScore(Tail(res), wanted)

\* lines 90-96; now is the text of datetime.now()
Aggregate(res, refs, name, now) ==
    IF res = <<>>
    THEN \* queries, scores = zip(*results)
         Raise("ValueError", "not enough values to unpack (expected 2, got 0)")
    ELSE LET total_score == Sum([i \in 1..Len(res) |-> res[i][2]])
             avg_score == IF refs # <<>> THEN Num(total_score, Len(refs)) ELSE PyInt(0) IN
         Return(EvalResult(name \o "_" \o now, avg_score,
                           QueriesWithScore(res, 0), QueriesWithScore(res, 1)))

(***************************************************************************)
(* Spec: one run of generate_eval_result(estimator, progress, parallel).   *)
(* progress only wraps the iteration in tqdm and is left out.              *)
(***************************************************************************)
max_workers == 10

\* the lower and upper columns of a row; the third row is skipped by load_eval
RowBounds == {<<"1", "4">>, <<"2", "8">>, <<"", "4">>}

Row(i, b) ==
    [question |-> "q" \o SubSeq("0123456789", i + 1, i + 1),
     lower |-> b[1], upper |-> b[2], unit |-> "kg"]

Datasets ==
    UNION {{[i \in 1..n |-> Row(i, c[i])] : c \in [1..n -> RowBounds]} : n \in 0..MaxRows}

Timestamps == {"2024-08-01_12-00-00"}

NoWorld == [fn |-> NoOutcome, reply |-> <<>>]
Future(status, result) == [status |-> status, result |-> result]
Running == {i \in DOMAIN futures : futures[i].status = "running"}

\* a variant that pairs every question with the first reference estimate
TaskArgs_FirstEstimate(qs, refs, i) ==
    [question |-> qs[i], correct_estimate |-> refs[1]]

\* lines 62-63: the item (i, correct_estimate) of enumerate(estimates)
TaskArgs(qs, refs, i) ==
    [question |-> qs[i], correct_estimate |-> refs[i]]

Init ==
    /\ pc = "start"
    /\ estimator = [name |-> EstimatorName, fn |-> EstimatorOutcomes]
    /\ rows \in Datasets
    /\ parallel \in BOOLEAN
    /\ questions = <<>>
    /\ estimates = <<>>
    /\ futures = <<>>
    /\ results = <<>>
    /\ world = <<>>
    /\ overtaken = FALSE
    /\ outcome = NoOutcome
    /\ text = ""
    /\ estimated = Str("")
    /\ correct = Estimate(0, 0, 0, "")
    /\ response = <<>>
    /\ requests = <<>>

\* lines 59 and 77-83: load the data; executor.map submits every item
Begin ==
    /\ pc = "start"
    /\ LET loaded == load_eval(rows)
           n == Len(loaded.estimates) IN
        /\ questions' = loaded.questions
        /\ estimates' = loaded.estimates
        /\ world' = [i \in 1..n |-> NoWorld]
        /\ futures' = IF parallel THEN [i \in 1..n |-> Future("queued", NoOutcome)]
                      ELSE <<>>
    /\ pc' = IF parallel THEN "collect" ELSE "loop"
    /\ UNCHANGED <<outcome, text, scoreVars, rows, estimator, parallel, results, overtaken>>

\* a worker thread takes the oldest item of the executor's queue
StartTask ==
    /\ pc = "collect"
    /\ Cardinality(Running) < max_workers
    /\ \E i \in DOMAIN futures :
        /\ futures[i].status = "queued"
        /\ \A j \in 1..(i - 1) : futures[j].status # "queued"
        /\ futures' = [futures EXCEPT ![i].status = "running"]
    /\ UNCHANGED <<pc, outcome, text, scoreVars, rows, estimator, parallel, questions,
                   estimates, results, world, overtaken>>

\* a worker thread completes process_estimate for its item
FinishTask ==
    /\ pc \in {"collect", "shutdown"}
    /\ \E i \in Running, fn \in estimator.fn, reply \in BatchResponses :
        LET args == TaskArgs(questions, estimates, i)
            r == process_estimate(args.question, args.correct_estimate, estimator.name, fn, reply) IN
        /\ futures' = [futures EXCEPT ![i] = Future("done", r.out)]
        /\ world' = [world EXCEPT ![i] =
                        [fn |-> fn, reply |-> IF r.calls = <<>> THEN <<>> ELSE <<reply>>]]
        /\ overtaken' = (overtaken \/ \E j \in Running : j < i)
    /\ UNCHANGED <<pc, outcome, text, scoreVars, rows, estimator, parallel, questions,
                   estimates, results>>

\* list(executor.map(...)) takes the next result in submission order; a
\* raised result cancels the futures still queued and leaves the with block
CollectResult ==
    /\ pc = "collect"
    /\ Len(results) < Len(futures)
    /\ LET f == futures[Len(results) + 1] IN
        /\ f.status = "done"
        /\ IF f.result.kind = "raise"
           THEN /\ outcome' = f.result
                /\ futures' = [i \in DOMAIN futures |->
                                 IF futures[i].status = "queued"
                                 THEN Future("cancelled", NoOutcome) ELSE futures[i]]
                /\ pc' = "shutdown"
                /\ UNCHANGED results
           ELSE /\ results' = Append(results, f.result.value)
                /\ UNCHANGED <<pc, outcome, futures>>
    /\ UNCHANGED <<text, scoreVars, rows, estimator, parallel, questions, estimates, world,
                   overtaken>>

\* the with block waits for the running workers, then the exception goes on
Propagate ==
    /\ pc = "shutdown"
    /\ Running = {}
    /\ pc' = "raised"
    /\ UNCHANGED <<outcome, text, scoreVars, batchVars>>

\* lines 85-88: the list comprehension processes the next item
SequentialStep ==
    /\ pc = "loop"
    /\ Len(results) < Len(estimates)
    /\ \E fn \in estimator.fn, reply \in BatchResponses :
        LET i == Len(results) + 1
            args == TaskArgs(questions, estimates, i)
            r == process_estimate(args.question, args.correct_estimate, estimator.name, fn, reply) IN
        /\ world' = [world EXCEPT ![i] =
                        [fn |-> fn, reply |-> IF r.calls = <<>> THEN <<>> ELSE <<reply>>]]
        /\ IF r.out.kind = "raise"
           THEN /\ outcome' = r.out
                /\ pc' = "raised"
                /\ UNCHANGED results
           ELSE /\ results' = Append(results, r.out.value)
                /\ UNCHANGED <<pc, outcome>>
    /\ UNCHANGED <<text, scoreVars, rows, estimator, parallel, questions, estimates, futures,
                   overtaken>>

\* lines 90-96
Finish ==
    /\ pc \in {"collect", "loop"}
    /\ Len(results) = Len(estimates)
    /\ \E now \in Timestamps :
        /\ outcome' = Aggregate(results, estimates, estimator.name, now)
        /\ pc' = IF outcome'.kind = "raise" THEN "raised" ELSE "returned"
    /\ UNCHANGED <<text, scoreVars, batchVars>>

Next ==
    \/ Begin
    \/ StartTask
    \/ FinishTask
    \/ CollectResult
    \/ Propagate
    \/ SequentialStep
    \/ Finish

Spec == Init /\ [][Next]_vars

(***************************************************************************)
(* Properties of calculate_score and convert_units (SpecScore).            *)
(***************************************************************************)
\* the call ended as o: it returned o's value, or raised o's exception
Ended(o) ==
    /\ outcome.kind = o.kind
    /\ outcome.exc = o.exc
    /\ outcome.msg = o.msg
    /\ o.kind = "return" => outcome.value = o.value

ScoreCalled == pc \in {"returned", "raised"}
Replied(r) == ScoreCalled /\ response = <<r>>

\* the result of the strict range check on value * n / d
RangeScore(n, d) ==
    IF correct.lower * d < estimated.value * n /\ estimated.value * n < correct.upper * d
    THEN 1 ELSE 0

InvalidUnitsLog(reason) ==
    "Invalid units: " \o estimated.unit \o " and " \o correct.unit
        \o ". Conversion model returned: " \o reason

\* C1 as stated: whenever the completion service replies "same",
\* calculate_score returns (1, "") whatever the value and the bounds are.
C1_SameScoresOne ==
    Replied("same") => Ended(Return(<<1, "">>))

\* C1 as amended: when the completion service replies "same", convert_units
\* returns the factor 1 and calculate_score returns (1, "") exactly when
\* correct.lower < estimated.value < correct.upper, and (0, "") otherwise.
C1_SameIsFactorOne ==
    Replied("same") =>
        Ended(Return(<<IF correct.lower < estimated.value
                              /\ estimated.value < correct.upper
                           THEN 1 ELSE 0, "">>))

C1_Witness ==
    /\ Replied("same")
    /\ estimated.value >= correct.upper
    /\ Ended(Return(<<0, "">>))

\* C2: when convert_units yields a numeric factor f, calculate_score returns
\* (1, "") exactly when correct.lower < estimated.value * f < correct.upper,
\* both inequalities strict, and (0, "") otherwise.
C2_StrictRange ==
    (ScoreCalled /\ Len(response) = 1) =>
        LET f == convert_units(estimated.unit, correct.unit, response[1]) IN
        IsNum(f) => Ended(Return(<<RangeScore(f.n, f.d), "">>))

C2_Witness ==
    /\ Replied("1 / 2")
    /\ estimated.value = 2 * correct.upper
    /\ correct.lower < correct.upper
    /\ Ended(Return(<<0, "">>))

C6_ParseFailureSkipsConversion ==
    ScoreCalled =>
        IF IsStr(estimated)
        THEN Ended(Return(<<0, estimated.s>>)) /\ requests = <<>>
        ELSE requests = << <<estimated.unit, correct.unit>> >>

C6_Witness ==
    /\ pc = "returned"
    /\ estimated = Str("Traceback")
    /\ Ended(Return(<<0, "Traceback">>))
    /\ requests = <<>>

\* C7: a reply that equals "same" once stripped and lowered is scored as the
\* reply "same" is; a reply that starts with "invalid" once stripped and
\* lowered gives invalid units whose reason is the text following "invalid"
\* in the reply.
C7_NormalizedReply ==
    (ScoreCalled /\ Len(response) = 1) =>
        LET stripped == StrStrip(response[1])
            norm == StrLower(stripped) IN
        /\ norm = "same" => Ended(Return(<<RangeScore(1, 1), "">>))
        /\ StartsWith(norm, "invalid") =>
                Ended(Return(<<0, InvalidUnitsLog(SliceFrom(stripped, 7))>>))

(***************************************************************************)
(* Properties of parse_estimate (SpecParse).                               *)
(***************************************************************************)
ParseCalled == pc \in {"returned", "raised"}

\* the span from the first "{" to the last "}" of text
Span == Slice(text, Find(text, "{"), RFind(text, "}") + 1)

\* the span parses as a JSON object
HasDocument ==
    /\ StartsWith(Span, "{")
    /\ EndsWith(Span, "}")
    /\ JsonLoads(Span).kind = "return"

Document == JsonLoads(Span).value

\* the sequences that list each member of S once
Orderings(S) ==
    {o \in [1..Cardinality(S) -> S] : \A i, j \in 1..Cardinality(S) : o[i] = o[j] => i = j}

\* C8: when the span parses as a JSON object that lacks one of lower, value,
\* upper, unit, parse_estimate raises the ValueError whose message lists
\* exactly the keys of the document that are not among those four, and so
\* names no missing key.
C8_ReportsExtraKeys ==
    (ParseCalled /\ HasDocument /\ ~(ExpectedKeys \subseteq DOMAIN Document)) =>
        /\ outcome.kind = "raise"
        /\ outcome.exc = "ValueError"
        /\ \E o \in Orderings(DOMAIN Document \ ExpectedKeys) :
                outcome.msg = "Text is missing the fields: " \o Join(", ", o)

C8_Witness ==
    /\ pc = "raised"
    /\ text = "{\"lower\": 1, \"confidence\": 1, \"value\": 1, \"upper\": 1}"
    /\ Ended(Raise("ValueError", "Text is missing the fields: confidence"))

\* C9: when the document has all four keys and some of lower, value, upper
\* holds a value that is not a number and cannot be converted by float,
\* parse_estimate raises the ValueError that names such a field, and nothing
\* else escapes.
C9_BadFieldIsParseError ==
    (ParseCalled /\ HasDocument /\ ExpectedKeys \subseteq DOMAIN Document) =>
        LET offending == {f \in numerical_fields :
                            /\ ~IsNum(Document[f])
                            /\ PyFloat(Document[f]).kind = "raise"} IN
        offending # {} =>
            \E f \in offending :
                Ended(Raise("ValueError", "Field '" \o f \o "' is not a valid number"))

(***************************************************************************)
(* Properties of generate_eval_result (Spec).                              *)
(***************************************************************************)
BatchDone == pc \in {"returned", "raised"}
N == Len(estimates)

\* question i has been processed and its estimator call raised
EstimatorRaised(i) == i \in DOMAIN world /\ world[i].fn.kind = "raise"

\* the reply convert_units got for question i ("" when it was not called)
ReplyFor(i) == IF world[i].reply = <<>> THEN "" ELSE world[i].reply[1]

\* what question i, scored against reference i, must result in
OwnResult(i) ==
    process_estimate(questions[i], estimates[i], estimator.name, world[i].fn,
                     ReplyFor(i)).out

\* the entry recorded for a question whose estimator call ended with e
FailedQuery(i) ==
    QueryEvalResult(questions[i], Str(TracebackText(world[i].fn)), estimator.name,
                    estimates[i],
                    <<TracebackText(world[i].fn), TracebackText(world[i].fn)>>)

\* the positions in questions of the entries of a list of queries
RECURSIVE Positions(_)
Positions(queries) ==
    IF queries = <<>> THEN <<>>
    ELSE <<CHOOSE i \in 1..Len(questions) : questions[i] = queries[1].question>>
         \o Positions(Tail(queries))

Increasing(seq) == \A i, j \in 1..Len(seq) : i < j => seq[i] < seq[j]
Range(seq) == {seq[i] : i \in 1..Len(seq)}

C5_AverageDefined ==
    (BatchDone /\ Len(results) = N) =>
        /\ outcome.kind = "return"
        /\ outcome.value.score =
                IF N = 0 THEN PyInt(0)
                ELSE Num(Cardinality({i \in 1..N : results[i][2] = 1}), N)

\* the run of the list comprehension (parallel = False) from question i on,
\* given the same estimator and conversion outcomes
RECURSIVE SequentialFrom(_, _)
SequentialFrom(i, acc) ==
    IF i > N THEN Return(acc)
    ELSE IF OwnResult(i).kind = "raise" THEN OwnResult(i)
    ELSE SequentialFrom(i + 1, Append(acc, OwnResult(i).value))

\* C10: with parallel = True, under every interleaving of the workers, the
\* results are collected in dataset order, question i is scored against
\* reference i, the returned lists partition the questions and keep dataset
\* order, and the run ends as the sequential run does for the same
\* estimator and conversion outcomes.
C10_ParallelMatchesSequential ==
    parallel =>
        /\ \A k \in 1..Len(results) :
                /\ results[k][1].question = questions[k]
                /\ results[k][1].correct_estimate = estimates[k]
                /\ OwnResult(k).kind = "return"
                /\ results[k] = OwnResult(k).value
        /\ pc = "returned" =>
                LET qc == Positions(outcome.value.queries_correct)
                    qi == Positions(outcome.value.queries_incorrect) IN
                /\ Increasing(qc) /\ Increasing(qi)
                /\ Range(qc) \cap Range(qi) = {}
                /\ Range(qc) \cup Range(qi) = 1..N
                /\ \A k \in 1..Len(qc) : results[qc[k]][2] = 1
        /\ BatchDone =>
                LET seq == SequentialFrom(1, <<>>) IN
                \E now \in Timestamps :
                    Ended(IF seq.kind = "raise" THEN seq
                          ELSE Aggregate(seq.value, estimates, estimator.name, now))

C10_Witness ==
    /\ parallel
    /\ pc = "returned"
    /\ overtaken
    /\ Len(outcome.value.queries_correct) >= 1
    /\ Len(outcome.value.queries_incorrect) >= 2

=============================================================================
